---- MODULE Spec2Model ----
(***************************************************************************)
(* The tracer of src/trace.ts: buildTracer() and the async trace() closure *)
(* it returns, as a state machine.  JavaScript runs the code between two   *)
(* awaits without interruption, so every action is one such run: from the  *)
(* settling of the awaited promise to the next await, return or throw.     *)
(*                                                                         *)
(* Four specifications: Spec, the calls on a tracer one after the other;   *)
(* SpecLong, the same calls on longer traces over more program counters;   *)
(* SpecExcerpt, getSource applied to a source file and a range on its own; *)
(* SpecConc, two calls on one tracer side by side.                         *)
(*                                                                         *)
(* Values.  A JavaScript string that the code takes apart or builds is a   *)
(* sequence of one-character strings; a value that may be undefined is a   *)
(* sequence of length 0 (undefined) or 1 (the value); an object is a       *)
(* record and the object spread {...a, ...b} is Merge(a, b).               *)
(***************************************************************************)
EXTENDS Integers, Sequences, FiniteSets, TLC

\* Bound of the model: the longest raw trace (structLogs) the node returns.
MaxSteps == 2

\* The longest raw trace of the calls on longer traces.
MaxLongSteps == 3

\* Bounds of the source files getSource is applied to on its own: the most
\* lines of a file, and the most characters of a line.
MaxLines == 3
MaxLineLen == 3

\* The program counters of the traced bytecode.
PCs == {0, 1}

Some(v) == <<v>>
None == <<>>
IsSome(o) == Len(o) = 1
Val(o) == o[1]

\* {...a, ...b}: the fields of b laid over those of a.
Merge(a, b) ==
  [k \in (DOMAIN a) \cup (DOMAIN b) |-> IF k \in DOMAIN b THEN b[k] ELSE a[k]]

SeqsUpTo(S, n) == UNION {[1..k -> S] : k \in 0..n}

Min(a, b) == IF a < b THEN a ELSE b
Max(a, b) == IF a > b THEN a ELSE b

\* Array.prototype.slice / String.prototype.slice (begin, end) on a sequence;
\* JavaScript indices are 0-based, negative ones count from the end.
SliceIndex(k, len) == IF k < 0 THEN Max(len + k, 0) ELSE Min(k, len)

Slice(s, begin, end) ==
  LET from == SliceIndex(begin, Len(s))
      to == SliceIndex(end, Len(s))
  IN  IF from >= to THEN <<>> ELSE SubSeq(s, from + 1, to)

\* slice(begin) with the end left out.
SliceFrom(s, begin) == Slice(s, begin, Len(s))

\* Number -> decimal string, as a template literal formats it.
RECURSIVE Digits(_)
Digits(n) ==
  LET d == <<"0", "1", "2", "3", "4", "5", "6", "7", "8", "9">>
  IN  IF n < 10 THEN <<d[n + 1]>> ELSE Digits(n \div 10) \o <<d[(n % 10) + 1]>>

\* String.prototype.split("\n") on a character sequence.
RECURSIVE SplitLines(_)
SplitLines(text) ==
  IF \A i \in 1..Len(text) : text[i] # "\n"
    THEN <<text>>
    ELSE LET i == CHOOSE j \in 1..Len(text) :
                    text[j] = "\n" /\ \A k \in 1..(j - 1) : text[k] # "\n"
         IN  <<SubSeq(text, 1, i - 1)>> \o SplitLines(SubSeq(text, i + 1, Len(text)))

\* ethereumjs-util stripHexPrefix.
stripHexPrefix(s) ==
  IF Len(s) >= 2 /\ s[1] = "0" /\ s[2] = "x" THEN SubSeq(s, 3, Len(s)) ELSE s

\* chalk.blueBright with colours on: the text between the ANSI open and close
\* codes; chalk hands the empty string back unchanged.
color(s) == IF s = <<>> THEN <<>> ELSE <<"\\e[94m">> \o s \o <<"\\e[39m">>

(***************************************************************************)
(* getSource(offset, sourceFile): the location label and the excerpt.      *)
(***************************************************************************)
\* Mutant: the label of a range within one line is formatted as that of a
\* range over several.
MutantLabelAlwaysRange(offset) ==
  LET st == offset.location.start
      en == offset.location.end
  IN  <<offset.fileName, ":">> \o Digits(st.line) \o <<"[">>
        \o Digits(st.column) \o <<"]", "-">> \o Digits(en.line) \o <<"[">>
        \o Digits(en.column) \o <<"]">>

sourceLineOf(offset) ==
  LET st == offset.location.start
      en == offset.location.end
  IN  IF st.line = en.line
        THEN <<offset.fileName, ":">> \o Digits(st.line) \o <<"[">>
               \o Digits(st.column) \o <<"-">> \o Digits(en.column) \o <<"]">>
        ELSE <<offset.fileName, ":">> \o Digits(st.line) \o <<"[">>
               \o Digits(st.column) \o <<"]", "-">> \o Digits(en.line) \o <<"[">>
               \o Digits(en.column) \o <<"]">>

\* Mutant: the text after the highlighted slice starts one character late.
MutantSuffixOneLate(result, line, i, n, startCol, endCol) ==
  LET first == i = 0
      last == i = n - 1
  IN  IF first /\ last
        THEN result \o Slice(line, 0, startCol)
               \o color(Slice(line, startCol, endCol)) \o SliceFrom(line, endCol + 1)
        ELSE IF first
          THEN result \o Slice(line, 0, startCol) \o color(SliceFrom(line, startCol))
          ELSE IF last
            THEN result \o color(Slice(line, 0, endCol)) \o SliceFrom(line, endCol + 1)
            ELSE result \o color(line)

\* The reduce callback of getSource, i being the 0-based index into lines.
excerptStep(result, line, i, n, startCol, endCol) ==
  LET first == i = 0
      last == i = n - 1
  IN  IF first /\ last
        THEN result \o Slice(line, 0, startCol)
               \o color(Slice(line, startCol, endCol)) \o SliceFrom(line, endCol)
        ELSE IF first
          THEN result \o Slice(line, 0, startCol) \o color(SliceFrom(line, startCol))
          ELSE IF last
            THEN result \o color(Slice(line, 0, endCol)) \o SliceFrom(line, endCol)
            ELSE result \o color(line)

RECURSIVE excerptReduce(_, _, _, _, _)
excerptReduce(lines, i, result, startCol, endCol) ==
  IF i >= Len(lines) THEN result
  ELSE excerptReduce(lines, i + 1,
         excerptStep(result, lines[i + 1], i, Len(lines), startCol, endCol),
         startCol, endCol)

getSource(offset, sourceFile) ==
  LET lines == Slice(sourceFile, offset.location.start.line - 1,
                     offset.location.end.line)
      startCol == offset.location.start.column
      endCol == offset.location.end.column
  IN  [source |-> excerptReduce(lines, 0, <<>>, startCol, endCol),
       sourceLine |-> sourceLineOf(offset)]

(***************************************************************************)
(* The data a call works on.                                               *)
(***************************************************************************)
\* A raw StructLog; the opcode at a program counter is fixed by the bytecode.
opAt(p) == IF p % 2 = 0 THEN "PUSH1" ELSE "SSTORE"
RawStep(p) == [pc |-> p, op |-> opAt(p), depth |-> 1, gas |-> 100 - p]
RawSteps == {RawStep(p) : p \in PCs}

\* The Trace objects debug_traceTransaction answers with.
Traces == {[gas |-> 21000, returnValue |-> "0x", structLogs |-> l] :
             l \in SeqsUpTo(RawSteps, MaxSteps)}

\* TransactionReceipt: a creation carries contractAddress and no destination;
\* an ordinary call carries the destination, and its contractAddress is null
\* or is left out of the receipt (contractAddress?: string).
Receipts ==
  {[transactionHash |-> "0xH", contractAddress |-> "0xC", to |-> "null"],
   [transactionHash |-> "0xH", contractAddress |-> "null", to |-> "0xT"],
   [transactionHash |-> "0xH", contractAddress |-> "undefined", to |-> "0xT"]}

\* JavaScript truthiness of the values a receipt field takes, and a || b.
Truthy(v) == v \notin {"null", "undefined", ""}
OrElse(a, b) == IF Truthy(a) THEN a ELSE b

\* The step predicates given as preFilter / postFilter: left out, keeping the
\* annotated steps, or keeping the steps whose program counter is in a set
\* (no step, the entry point only, all but the entry point).
NoFilter == [kind |-> "undefined", pcs |-> {}]
Filters ==
  {NoFilter, [kind |-> "hasSourceLine", pcs |-> {}]}
    \cup {[kind |-> "pcIn", pcs |-> S] : S \in {{}, {0}, PCs \ {0}}}

Test(f, log) ==
  IF f.kind = "pcIn" THEN log.pc \in f.pcs ELSE "sourceLine" \in DOMAIN log

TraceOptions ==
  [onTrace : BOOLEAN, preFilter : Filters, postFilter : Filters,
   execLog : BOOLEAN, exec : BOOLEAN]

\* The artifact the trace collector matches the bytecode with.
ContractData ==
  [sourceMap |-> "sourceMap", sourceMapRuntime |-> "sourceMapRuntime",
   sources |-> (0 :> "A"),
   sourceCodes |-> (0 :> <<"a", "b", "\n", "c", "d">>)]

DeployedBytecode == <<"0", "x", "6", "0">>

\* The source range parseSourceMap gives a program counter it can map: a
\* single-line range, a multi-line range, an empty span.
RangeAt(p) ==
  LET k == p % 3
      loc == IF k = 0 THEN [start |-> [line |-> 1, column |-> 0],
                            end |-> [line |-> 1, column |-> 1]]
             ELSE IF k = 1 THEN [start |-> [line |-> 1, column |-> 1],
                                 end |-> [line |-> 2, column |-> 1]]
             ELSE [start |-> [line |-> 2, column |-> 1],
                   end |-> [line |-> 2, column |-> 1]]
  IN  [fileName |-> "A", location |-> loc]

\* parseSourceMap(sourceCodes, sourceMap, bytecodeHex, sources): a table over
\* the program counters the source map covers (compiler-generated code has no
\* entry), S being that set.
parseSourceMap(S) == [p \in S |-> RangeAt(p)]

\* The sets of program counters a source map covers: all, all but one, none.
Coverages == {PCs, {}} \cup {PCs \ {p} : p \in PCs}

\* The values an observer's promise fulfils with.
ObserverValues ==
  {None, Some([gas |-> 0, returnValue |-> "0x", structLogs |-> <<RawStep(0)>>])}

\* Lines 120-125: file name -> the lines of its source text.
invertedOf(cd) ==
  [name \in {cd.sources[id] : id \in DOMAIN cd.sources} |->
     LET id == CHOOSE j \in DOMAIN cd.sources :
                 /\ cd.sources[j] = name
                 /\ \A k \in DOMAIN cd.sources : cd.sources[k] = name => k <= j
     IN  SplitLines(cd.sourceCodes[id])]

\* augmentLogs(structLogs, constants): one enriched step per raw step, in
\* order, each with its description and identity fingerprint, and the
\* provenance record (TraceInfo) derived from all the raw steps.
augmentLogs(structLogs) ==
  [logs |-> [i \in 1..Len(structLogs) |->
               Merge(structLogs[i], [desc |-> structLogs[i].op, sha |-> i])],
   info |-> [lastLog |-> IF structLogs = <<>> THEN None
                         ELSE Some(structLogs[Len(structLogs)]),
             inv |-> [i \in 1..Len(structLogs) |-> structLogs[i].pc]]]

\* The failures.
TransportError(what) == [name |-> "TransportError", what |-> what]
\* Mutant: the message does not name the address.
MutantErrorWithoutAddress(addr) ==
  [name |-> "Error",
   message |-> <<"Failed to find contract data for given bytecode at ", "">>]

ContractDataError(addr) ==
  [name |-> "Error",
   message |-> <<"Failed to find contract data for given bytecode at ", addr>>]
TypeErrorOfUndefined(prop) ==
  [name |-> "TypeError",
   message |-> <<"Cannot read properties of undefined (reading '", prop, "')">>]
AugmentationError == [name |-> "AugmentationError"]
CallbackError(who, i) == [name |-> "CallbackError", from |-> who, index |-> i]

\* What the provider hands the callback of send(): a transport error, a
\* response with the trace, or (err left null) a JSON-RPC error response,
\* which has an error member and no result.
JsonRpcError == [code |-> -32601, message |-> "method not found"]
RpcReplies ==
  {[err |-> Some(TransportError("debug_traceTransaction")), result |-> None,
    error |-> None]}
    \cup {[err |-> None, result |-> Some(t), error |-> None] : t \in Traces}
    \cup {[err |-> None, result |-> None, error |-> Some(JsonRpcError)]}

(***************************************************************************)
(* State.                                                                  *)
(***************************************************************************)
VARIABLES
  traceCollector,      \* buildTracer: "null", or the resolver handle
  contractsData,       \* buildTracer: "undefined", or the artifact set
  stage,               \* where the running call is suspended / how it ended
  receipt, traceOpts,  \* the arguments of the running call
  address,             \* line 108
  isContractCreation,  \* line 109
  bytecode,            \* line 110
  pcToSourceRange,     \* line 106 / 119
  inverted,            \* line 106 / 120
  reply,               \* what the provider called back with (line 57)
  trace,               \* line 128
  observer,            \* state of the promise onTrace returned
  augmentedLogs, info, \* line 134
  filteredLogs,        \* line 135 / 138
  postFilteredLogs,    \* line 149
  handlers,            \* state of the promise each execLog invocation returned
  all,                 \* state of the Promise.all of line 154
  batch,               \* state of the promise exec returned
  error,               \* the value the call rejected with
  result,              \* the value the call returned
  notFoundBefore,      \* an earlier call on this tracer found no contract data
  \* What the collaborators were called with, in order, during this call.
  getCodeCalls, metaCalls, parseCalls, rpcCalls, onTraceCalls, augmentCalls,
  execLogCalls, execCalls,
  ran,                 \* the stages of this call that have started, in order
  seen,                \* the steps each filter predicate has been applied to
  excerpt,             \* getSource on its own: its arguments and what it returned
  calls                \* the frames of the calls that run side by side

tracerVars == <<traceCollector, contractsData>>
resolveVars == <<address, isContractCreation, bytecode, pcToSourceRange, inverted,
                 getCodeCalls, metaCalls, parseCalls>>
pipeVars == <<augmentedLogs, info, filteredLogs, postFilteredLogs, handlers, all,
              batch, result, augmentCalls, execLogCalls, execCalls, seen>>
vars == <<traceCollector, contractsData, stage, receipt, traceOpts, address,
          isContractCreation, bytecode, pcToSourceRange, inverted, reply, trace,
          observer, augmentedLogs, info, filteredLogs, postFilteredLogs, handlers,
          all, batch, error, result, notFoundBefore, getCodeCalls, metaCalls, parseCalls, rpcCalls,
          onTraceCalls, augmentCalls, execLogCalls, execCalls, ran, seen, excerpt,
          calls>>
\* The variables of one call at a time.
callVars == <<traceCollector, contractsData, stage, receipt, traceOpts, address,
              isContractCreation, bytecode, pcToSourceRange, inverted, reply, trace,
              observer, augmentedLogs, info, filteredLogs, postFilteredLogs,
              handlers, all, batch, error, result, notFoundBefore, getCodeCalls,
              metaCalls, parseCalls, rpcCalls, onTraceCalls, augmentCalls,
              execLogCalls, execCalls, ran, seen>>

NotJoined == [state |-> "none", reason |-> None]

\* No predicate has been applied to any step.
NothingSeen == [pre |-> <<>>, post |-> <<>>]

\* getSource has not been applied; no call runs beside another.
NoExcerpt == [phase |-> "none"]
NoCalls == <<>>

\* The locals of a call before line 106 has run, and nothing called yet.
FreshCall ==
  /\ address = "undefined" /\ isContractCreation = None /\ bytecode = None
  /\ pcToSourceRange = None /\ inverted = None /\ trace = None
  /\ reply = None /\ observer = "none" /\ batch = "none"
  /\ augmentedLogs = None /\ info = None /\ filteredLogs = None
  /\ postFilteredLogs = None /\ handlers = <<>> /\ all = NotJoined
  /\ error = None /\ result = None
  /\ getCodeCalls = <<>> /\ metaCalls = <<>> /\ parseCalls = <<>>
  /\ rpcCalls = <<>> /\ onTraceCalls = <<>> /\ augmentCalls = <<>>
  /\ execLogCalls = <<>> /\ execCalls = <<>>
  /\ ran = <<>> /\ seen = NothingSeen

\* buildTracer (lines 98-103): with an artifact adapter the artifact set is
\* collected and the trace collector built; without one both stay unset.
Init ==
  /\ \/ traceCollector = "null" /\ contractsData = "undefined"
     \/ traceCollector = "TraceCollector" /\ contractsData = "artifacts"
  /\ stage = "idle"
  /\ receipt = None /\ traceOpts = None
  /\ notFoundBefore = FALSE
  /\ FreshCall
  /\ excerpt = NoExcerpt
  /\ calls = NoCalls

\* rpc(web3, {method: 'debug_traceTransaction', params: [txHash, {}]}).
traceRequest(txHash) ==
  [method |-> "debug_traceTransaction", params |-> <<txHash, "{}">>]

(***************************************************************************)
(* Lines 134-161, run without interruption up to the first await.          *)
(***************************************************************************)
\* Mutant: a filter that collects the steps it keeps last-first.
MutantFilterReversed(f, logs) ==
  IF f.kind = "undefined" THEN logs
  ELSE LET kept == SelectSeq(logs, LAMBDA l : Test(f, l))
       IN  [i \in 1..Len(kept) |-> kept[Len(kept) + 1 - i]]

\* Mutant: a predicate left out is taken for one that holds of no step.
MutantFilterMissingDropsAll(f, logs) ==
  IF f.kind = "undefined" THEN <<>> ELSE SelectSeq(logs, LAMBDA l : Test(f, l))

\* Array.prototype.filter with predicate f; the array itself when f is left out.
applyFilter(f, logs) ==
  IF f.kind = "undefined" THEN logs ELSE SelectSeq(logs, LAMBDA l : Test(f, l))

\* Line 135.
preFilterLogs(opts, logs) == applyFilter(opts.preFilter, logs)

\* Mutant: the post-filter predicate is never applied.
MutantPostFilterIgnored(opts, logs) == logs

\* Line 149.
postFilterLogs(opts, logs) == applyFilter(opts.postFilter, logs)

\* Mutant: the annotated step keeps the step's identity and nothing else of it.
MutantAnnotationReplacesStep(log, table, files) ==
  LET offset == table[log.pc]
      sourceFile == files[offset.fileName]
  IN  Merge([pc |-> log.pc, sha |-> log.sha], getSource(offset, sourceFile))

\* Lines 138-146: the callback of map, for one step.
annotateLog(log, table, files) ==
  LET offset == table[log.pc]
      sourceFile == files[offset.fileName]
  IN  Merge(log, getSource(offset, sourceFile))

\* Line 139-140 on a step whose program counter the table does not hold:
\* offset is undefined and offset.fileName throws.
unmapped(logs, table) == {i \in 1..Len(logs) : logs[i].pc \notin DOMAIN table}

annotateLogs(logs, table, files) ==
  [i \in 1..Len(logs) |-> annotateLog(logs[i], table, files)]

\* The ProvenanceIndex the handlers are given (lines 134, 154, 158).
handlerInfo(aug) == aug.info

\* Mutant: the dispatch loop stops one step short.
MutantInvokedAllButLast(logs, throwAt) ==
  IF logs = <<>> THEN logs ELSE SubSeq(logs, 1, Len(logs) - 1)

\* The steps execLog is invoked with, in order (line 154), when the
\* invocation throwAt throws before returning its promise (0: none does):
\* map stops there.
invoked(logs, throwAt) ==
  IF throwAt \in 1..Len(logs) THEN SubSeq(logs, 1, throwAt) ELSE logs

\* Promise.all over n promises, none settled yet.
joinOf(n) == [state |-> IF n = 0 THEN "fulfilled" ELSE "pending", reason |-> None]

\* Mutant: exec is invoked and not awaited.
MutantBatchNotAwaited(opts, logs, inf, r) ==
  IF opts.exec
    THEN [r EXCEPT !.stage = "done", !.batch = "pending",
                   !.execCalls = <<[logs |-> logs, info |-> inf]>>,
                   !.result = Some(logs)]
    ELSE [r EXCEPT !.stage = "done", !.result = Some(logs)]

\* Lines 157-161, entered with the final sequence.
batchOrReturn(opts, logs, inf, r) ==
  IF opts.exec
    THEN [r EXCEPT !.stage = "exec", !.batch = "pending",
                   !.execCalls = <<[logs |-> logs, info |-> inf]>>,
                   !.ran = @ \o <<"exec">>]
    ELSE [r EXCEPT !.stage = "done", !.result = Some(logs),
                   !.ran = @ \o <<"return">>]

\* Lines 151-161.
dispatch(opts, logs, inf, throwAt, r) ==
  IF opts.execLog
    THEN LET started == invoked(logs, throwAt)
             invocations == [i \in 1..Len(started) |-> [log |-> started[i], info |-> inf]]
         IN  IF throwAt \in 1..Len(logs)
               THEN [r EXCEPT !.stage = "failed",
                              !.ran = @ \o <<"execLog">>,
                              !.execLogCalls = invocations,
                              !.handlers = [i \in 1..throwAt |->
                                              IF i = throwAt THEN "threw"
                                              ELSE "pending"],
                              !.error = Some(CallbackError("execLog", throwAt))]
               ELSE [r EXCEPT !.stage = "awaitAll",
                              !.ran = @ \o <<"execLog">>,
                              !.execLogCalls = invocations,
                              !.handlers = [i \in 1..Len(logs) |-> "pending"],
                              !.all = joinOf(Len(logs))]
    ELSE batchOrReturn(opts, logs, inf, r)

\* Mutant: the steps are annotated before the pre-filter sees them.
MutantAnnotatedBeforePreFilter(logs, table, files) ==
  IF IsSome(table) /\ IsSome(files) /\ unmapped(logs, Val(table)) = {}
    THEN annotateLogs(logs, Val(table), Val(files))
    ELSE logs

\* Line 135: the array whose filter method is called, augmentedLogs.
preFilterInput(logs, table, files) == logs

\* The steps a filter stage applies its predicate to: every element of the
\* array when a predicate is given, none when it is left out.
predicateSees(f, logs) == IF f.kind = "undefined" THEN <<>> ELSE logs

\* Mutant: every augmented step is annotated, pre-filtered or not.
MutantAnnotatesEveryStep(logs, pre) == logs

\* Line 138: the array whose map method is called, filteredLogs as the
\* pre-filter left it (logs: the augmented steps, pre: those it kept).
annotationInput(logs, pre) == pre

\* Lines 134-161 on the fetched trace tr: the values of the call's variables
\* at its next await, return or throw.  augThrows: augmentLogs throws.
pipeline(tr, opts, table, files, augThrows, throwAt) ==
  LET r0 == [stage |-> "failed", augmentCalls |-> <<>>,
             augmentedLogs |-> None, info |-> None,
             filteredLogs |-> None, postFilteredLogs |-> None,
             execLogCalls |-> <<>>, handlers |-> <<>>, all |-> NotJoined,
             batch |-> "none", execCalls |-> <<>>, error |-> None,
             result |-> None, ran |-> <<>>, seen |-> NothingSeen]
  IN  IF ~IsSome(tr)
        THEN [r0 EXCEPT !.error = Some(TypeErrorOfUndefined("structLogs"))]
      ELSE LET r1 == [r0 EXCEPT !.augmentCalls = <<Val(tr).structLogs>>,
                                !.ran = <<"augmentLogs">>] IN
      IF augThrows
        THEN [r1 EXCEPT !.error = Some(AugmentationError)]
      ELSE LET aug == augmentLogs(Val(tr).structLogs)
               preIn == preFilterInput(aug.logs, table, files)
               pre == preFilterLogs(opts, preIn)
               r2 == [r1 EXCEPT !.augmentedLogs = Some(aug.logs),
                                !.info = Some(aug.info),
                                !.filteredLogs = Some(pre),
                                !.ran = @ \o <<"preFilter">>,
                                !.seen.pre = predicateSees(opts.preFilter, preIn)]
               mapped == annotationInput(aug.logs, pre)
           IN
      IF IsSome(table) /\ IsSome(files) /\ unmapped(mapped, Val(table)) # {}
        THEN [r2 EXCEPT !.error = Some(TypeErrorOfUndefined("fileName")),
                        !.ran = @ \o <<"annotate">>]
      ELSE LET annotates == IsSome(table) /\ IsSome(files)
               filtered == IF annotates
                             THEN annotateLogs(mapped, Val(table), Val(files))
                             ELSE pre
               post == postFilterLogs(opts, filtered)
               r3 == [r2 EXCEPT !.filteredLogs = Some(filtered),
                                !.postFilteredLogs = Some(post),
                                !.ran = @ \o (IF annotates THEN <<"annotate">>
                                              ELSE <<>>) \o <<"postFilter">>,
                                !.seen.post =
                                  predicateSees(opts.postFilter, filtered)]
           IN  dispatch(opts, post, handlerInfo(aug), throwAt, r3)

\* The call's variables take the values r gives them.
Becomes(r) ==
  /\ stage' = r.stage
  /\ augmentCalls' = r.augmentCalls
  /\ augmentedLogs' = r.augmentedLogs
  /\ info' = r.info
  /\ filteredLogs' = r.filteredLogs
  /\ postFilteredLogs' = r.postFilteredLogs
  /\ execLogCalls' = r.execLogCalls
  /\ handlers' = r.handlers
  /\ all' = r.all
  /\ batch' = r.batch
  /\ execCalls' = r.execCalls
  /\ error' = r.error
  /\ result' = r.result
  /\ ran' = ran \o r.ran
  /\ seen' = r.seen

(***************************************************************************)
(* The actions: one per run of trace() between two awaits.  They are the   *)
(* steps of one call and say nothing of the frames of calls side by side   *)
(* (calls); the specification that takes the steps does.                   *)
(***************************************************************************)
\* Line 108.
targetAddress(r) == OrElse(r.contractAddress, r.to)

\* Line 109.
creationFlag(r) == r.contractAddress # "null"

\* Line 118.
selectSourceMap(creation, cd) ==
  IF creation THEN cd.sourceMap ELSE cd.sourceMapRuntime

\* Line 106: the locals of the new call, and nothing called yet.
ResetCall ==
  /\ bytecode' = None /\ pcToSourceRange' = None /\ inverted' = None
  /\ trace' = None /\ augmentedLogs' = None /\ info' = None
  /\ reply' = None /\ observer' = "none" /\ batch' = "none"
  /\ filteredLogs' = None /\ postFilteredLogs' = None
  /\ handlers' = <<>> /\ all' = NotJoined /\ error' = None /\ result' = None
  /\ metaCalls' = <<>> /\ parseCalls' = <<>> /\ onTraceCalls' = <<>>
  /\ augmentCalls' = <<>> /\ execLogCalls' = <<>> /\ execCalls' = <<>>
  /\ seen' = NothingSeen

\* trace(r, o) is called (lines 105-110, or 105-128 without a trace
\* collector) and runs to its first await.  Calls follow one another: the
\* caller has the outcome of the one before.
StartCall(r, o) ==
  /\ stage = "idle"
  /\ receipt' = Some(r) /\ traceOpts' = Some(o)
  /\ ResetCall
  /\ IF traceCollector # "null"
       THEN /\ address' = targetAddress(r)
            /\ isContractCreation' = Some(creationFlag(r))
            /\ getCodeCalls' = <<targetAddress(r)>>
            /\ rpcCalls' = <<>>
            /\ stage' = "getCode"
            /\ ran' = <<"getCode">>
       ELSE /\ address' = "undefined"
            /\ isContractCreation' = None
            /\ getCodeCalls' = <<>>
            /\ rpcCalls' = <<traceRequest(r.transactionHash)>>
            /\ stage' = "rpc"
            /\ ran' = <<"fetch">>
  /\ UNCHANGED <<tracerVars, notFoundBefore, excerpt>>

\* web3.eth.getCode settles (lines 110-111).
GetCodeReturn(ok) ==
  /\ stage = "getCode"
  /\ IF ok
       THEN /\ bytecode' = Some(DeployedBytecode)
            /\ metaCalls' = <<[address |-> address, bytecode |-> DeployedBytecode,
                               isContractCreation |-> Val(isContractCreation)]>>
            /\ stage' = "getContractData"
            /\ error' = error
            /\ ran' = ran \o <<"getContractData">>
       ELSE /\ stage' = "failed"
            /\ error' = Some(TransportError("getCode"))
            /\ UNCHANGED <<bytecode, metaCalls, ran>>
  /\ UNCHANGED <<excerpt, tracerVars, notFoundBefore, receipt, traceOpts, address,
                 isContractCreation, pcToSourceRange, inverted, reply, trace,
                 observer, pipeVars, getCodeCalls, parseCalls, rpcCalls,
                 onTraceCalls>>

\* getContractDataByTraceInfoIfExistsAsync settles with the matching artifact
\* cd or with none (lines 111-128); S: the program counters the source map
\* covers.
GetContractDataReturn(cd, S) ==
  /\ stage = "getContractData"
  /\ IF ~IsSome(cd)
       THEN /\ stage' = "failed"
            /\ error' = Some(ContractDataError(address))
            /\ UNCHANGED <<pcToSourceRange, inverted, parseCalls, rpcCalls, ran>>
       ELSE /\ parseCalls' =
                 <<[sourceMap |-> selectSourceMap(Val(isContractCreation), Val(cd)),
                    bytecodeHex |-> stripHexPrefix(Val(bytecode))]>>
            /\ pcToSourceRange' = Some(parseSourceMap(S))
            /\ inverted' = Some(invertedOf(Val(cd)))
            /\ rpcCalls' = <<traceRequest(Val(receipt).transactionHash)>>
            /\ stage' = "rpc"
            /\ error' = error
            /\ ran' = ran \o <<"parseSourceMap", "fetch">>
  /\ UNCHANGED <<excerpt, tracerVars, notFoundBefore, receipt, traceOpts, address,
                 isContractCreation, bytecode, reply, trace, observer, pipeVars,
                 getCodeCalls, metaCalls, onTraceCalls>>

\* Line 57: the promise of rpc() rejects exactly when the callback's err is
\* set.
rpcRejects(rep) == IsSome(rep.err)

\* Line 130.
observerConfigured(opts) == opts.onTrace

\* Lines 61-63: how the promise of traceTransaction settles once the promise
\* of rpc has settled with the callback's arguments: rejected with err, or
\* fulfilled with the result member of the response.
traceTransactionOutcome(rep) ==
  IF rpcRejects(rep)
    THEN [state |-> "rejected", reason |-> rep.err, value |-> None]
    ELSE [state |-> "fulfilled", reason |-> None, value |-> rep.result]

\* Line 57: the provider calls back and the promise of rpc settles; nothing
\* of the call runs yet, traceTransaction resumes in a later turn.
RpcCallback(rep) ==
  /\ stage = "rpc"
  /\ reply' = Some(rep)
  /\ stage' = "rpcSettled"
  /\ UNCHANGED <<excerpt, tracerVars, notFoundBefore, receipt, traceOpts,
                 resolveVars, rpcCalls, trace, observer, onTraceCalls, pipeVars,
                 error, ran>>

\* Lines 61-63: traceTransaction resumes from its await and returns or
\* throws, which settles its promise; trace() resumes in a later turn.
TraceTransactionResume ==
  /\ stage = "rpcSettled"
  /\ stage' = "fetched"
  /\ UNCHANGED <<excerpt, tracerVars, notFoundBefore, receipt, traceOpts,
                 resolveVars, rpcCalls, reply, trace, observer, onTraceCalls,
                 pipeVars, error, ran>>

\* trace() resumes from the await of line 128 (lines 128-132 and, without
\* an observer, on through line 161).
TraceResume(augThrows, throwAt) ==
  /\ stage = "fetched"
  /\ LET fetched == traceTransactionOutcome(Val(reply))
     IN  IF fetched.state = "rejected"
           THEN /\ stage' = "failed"
                /\ error' = fetched.reason
                /\ UNCHANGED <<trace, observer, onTraceCalls, pipeVars, ran>>
           ELSE /\ trace' = fetched.value
                /\ IF observerConfigured(Val(traceOpts))
                     THEN /\ onTraceCalls' = <<fetched.value>>
                          /\ observer' = "pending"
                          /\ stage' = "onTrace"
                          /\ ran' = ran \o <<"onTrace">>
                          /\ UNCHANGED <<pipeVars, error>>
                     ELSE /\ UNCHANGED <<onTraceCalls, observer>>
                          /\ Becomes(pipeline(fetched.value, Val(traceOpts),
                                              pcToSourceRange, inverted,
                                              augThrows, throwAt))
  /\ UNCHANGED <<excerpt, tracerVars, notFoundBefore, receipt, traceOpts,
                 resolveVars, rpcCalls, reply>>

\* Mutant: the observer's value replaces the fetched trace.
MutantTraceFromObserver(tr, value) == IF IsSome(value) THEN value ELSE tr

\* Line 131: the value of the await is dropped; trace stays what was fetched.
afterObserver(tr, value) == tr

\* The observer's promise settles (lines 131-161): ok with some value, or
\* rejected.
OnTraceReturn(ok, value, augThrows, throwAt) ==
  /\ stage = "onTrace"
  /\ observer' = IF ok THEN "fulfilled" ELSE "rejected"
  /\ IF ok
       THEN /\ trace' = afterObserver(trace, value)
            /\ Becomes(pipeline(afterObserver(trace, value), Val(traceOpts),
                                pcToSourceRange, inverted, augThrows, throwAt))
       ELSE /\ stage' = "failed"
            /\ error' = Some(CallbackError("onTrace", 0))
            /\ UNCHANGED <<trace, pipeVars, ran>>
  /\ UNCHANGED <<excerpt, tracerVars, notFoundBefore, receipt, traceOpts, resolveVars,
                 reply, rpcCalls, onTraceCalls>>

\* Mutant: the join waits for every promise and ignores rejections
\* (Promise.allSettled).
MutantJoinAllSettled(join, hs, i, ok) ==
  IF join.state # "pending" THEN join
  ELSE IF \A j \in 1..Len(hs) : hs[j] # "pending"
    THEN [state |-> "fulfilled", reason |-> None]
  ELSE join

\* Mutant: the join settles only when every promise has, and rejects then if
\* one of them rejected.
MutantJoinWaitsForAll(join, hs, i, ok) ==
  IF join.state # "pending" THEN join
  ELSE IF \E j \in 1..Len(hs) : hs[j] = "pending" THEN join
  ELSE IF \E j \in 1..Len(hs) : hs[j] = "rejected"
    THEN [state |-> "rejected",
          reason |-> Some(CallbackError("execLog",
                            CHOOSE j \in 1..Len(hs) : hs[j] = "rejected"))]
  ELSE [state |-> "fulfilled", reason |-> None]

\* Promise.all after promise i settles: it rejects with the first rejection
\* and fulfils when every promise has fulfilled; once settled it stays.
joinAfter(join, hs, i, ok) ==
  IF join.state # "pending" THEN join
  ELSE IF ~ok
    THEN [state |-> "rejected", reason |-> Some(CallbackError("execLog", i))]
  ELSE IF \A j \in 1..Len(hs) : hs[j] = "fulfilled"
    THEN [state |-> "fulfilled", reason |-> None]
  ELSE join

\* The promise an execLog invocation returned settles.  Nothing cancels an
\* invocation: it may settle after the call has failed.
HandlerSettle(i, ok) ==
  /\ i \in 1..Len(handlers)
  /\ handlers[i] = "pending"
  /\ LET hs == [handlers EXCEPT ![i] = IF ok THEN "fulfilled" ELSE "rejected"]
     IN  /\ handlers' = hs
         /\ all' = joinAfter(all, hs, i, ok)
  /\ UNCHANGED <<excerpt, ran, seen, tracerVars, notFoundBefore, stage, receipt,
                 traceOpts, resolveVars, reply, trace, observer, augmentedLogs, info,
                 filteredLogs, postFilteredLogs, batch, error, result, rpcCalls,
                 onTraceCalls, augmentCalls, execLogCalls, execCalls>>

\* The await of line 154 resumes (lines 154-161).
AwaitAllResume ==
  /\ stage = "awaitAll"
  /\ all.state \in {"fulfilled", "rejected"}
  /\ IF all.state = "rejected"
       THEN /\ stage' = "failed"
            /\ error' = all.reason
            /\ UNCHANGED <<batch, execCalls, result, ran>>
       ELSE LET r == batchOrReturn(Val(traceOpts), Val(postFilteredLogs), Val(info),
                                   [stage |-> stage, batch |-> batch,
                                    execCalls |-> execCalls, result |-> result,
                                    ran |-> ran])
            IN  /\ stage' = r.stage
                /\ batch' = r.batch
                /\ execCalls' = r.execCalls
                /\ result' = r.result
                /\ ran' = r.ran
                /\ error' = error
  /\ UNCHANGED <<excerpt, seen, tracerVars, notFoundBefore, receipt, traceOpts, resolveVars,
                 reply, trace, observer, augmentedLogs, info, filteredLogs,
                 postFilteredLogs, handlers, all, rpcCalls, onTraceCalls,
                 augmentCalls, execLogCalls>>

\* Mutant: the call returns the sequence whether exec's promise fulfilled or
\* rejected.
MutantExecFailureIgnored(ok) ==
  /\ stage = "exec"
  /\ batch' = IF ok THEN "fulfilled" ELSE "rejected"
  /\ stage' = "done"
  /\ result' = Some(Val(postFilteredLogs))
  /\ ran' = ran \o <<"return">>
  /\ UNCHANGED <<excerpt, seen, tracerVars, notFoundBefore, receipt, traceOpts,
                 resolveVars, reply, trace, observer, augmentedLogs, info,
                 filteredLogs, postFilteredLogs, handlers, all, rpcCalls,
                 onTraceCalls, augmentCalls, execLogCalls, execCalls, error>>

\* The batch handler's promise settles (lines 158-161).
ExecReturn(ok) ==
  /\ stage = "exec"
  /\ batch' = IF ok THEN "fulfilled" ELSE "rejected"
  /\ IF ok
       THEN /\ stage' = "done"
            /\ result' = Some(Val(postFilteredLogs))
            /\ error' = error
            /\ ran' = ran \o <<"return">>
       ELSE /\ stage' = "failed"
            /\ error' = Some(CallbackError("exec", 0))
            /\ UNCHANGED <<result, ran>>
  /\ UNCHANGED <<excerpt, seen, tracerVars, notFoundBefore, receipt, traceOpts, resolveVars,
                 reply, trace, observer, augmentedLogs, info, filteredLogs,
                 postFilteredLogs, handlers, all, rpcCalls, onTraceCalls,
                 augmentCalls, execLogCalls, execCalls>>

\* The promise trace() returned has settled and the caller takes the outcome:
\* the call's frame, with every local of it, is gone; the tracer stays.
noContractData(e) == IsSome(e) /\ Val(e).name = "Error"

CallSettles ==
  /\ stage \in {"done", "failed"}
  /\ stage' = "idle"
  /\ notFoundBefore' = (notFoundBefore \/ noContractData(error))
  /\ receipt' = None /\ traceOpts' = None
  /\ address' = "undefined" /\ isContractCreation' = None
  /\ getCodeCalls' = <<>> /\ rpcCalls' = <<>>
  /\ ResetCall
  /\ ran' = <<>>
  /\ UNCHANGED <<tracerVars, excerpt>>

\* One call at a time: no call runs beside another.
Next ==
  \/ \E r \in Receipts, o \in TraceOptions : StartCall(r, o) /\ UNCHANGED calls
  \/ \E ok \in BOOLEAN : GetCodeReturn(ok) /\ UNCHANGED calls
  \/ \E cd \in {None, Some(ContractData)}, S \in Coverages :
       GetContractDataReturn(cd, S) /\ UNCHANGED calls
  \/ \E rep \in RpcReplies : RpcCallback(rep) /\ UNCHANGED calls
  \/ TraceTransactionResume /\ UNCHANGED calls
  \/ \E augThrows \in BOOLEAN, throwAt \in 0..MaxSteps :
       TraceResume(augThrows, throwAt) /\ UNCHANGED calls
  \/ \E ok \in BOOLEAN, value \in ObserverValues,
        augThrows \in BOOLEAN, throwAt \in 0..MaxSteps :
       OnTraceReturn(ok, value, augThrows, throwAt) /\ UNCHANGED calls
  \/ \E i \in 1..MaxSteps, ok \in BOOLEAN : HandlerSettle(i, ok) /\ UNCHANGED calls
  \/ AwaitAllResume /\ UNCHANGED calls
  \/ \E ok \in BOOLEAN : ExecReturn(ok) /\ UNCHANGED calls
  \/ CallSettles /\ UNCHANGED calls

Spec == Init /\ [][Next]_vars

(***************************************************************************)
(* Longer traces: one call at a time on a tracer built with an artifact    *)
(* adapter, the node answering with traces of up to MaxLongSteps steps     *)
(* over three program counters, each of which the source map may cover or  *)
(* leave out and the pre-filter may keep or drop.  The steps are those of  *)
(* Spec; the calls are ordinary calls given no observer and no per-step    *)
(* handler.                                                                *)
(***************************************************************************)
LongPCs == {0, 1, 2}

LongTraces ==
  {[gas |-> 21000, returnValue |-> "0x", structLogs |-> l] :
     l \in SeqsUpTo({RawStep(p) : p \in LongPCs}, MaxLongSteps)}

LongReplies ==
  {[err |-> Some(TransportError("debug_traceTransaction")), result |-> None,
    error |-> None]}
    \cup {[err |-> None, result |-> Some(t), error |-> None] : t \in LongTraces}

\* The pre-filter left out, or keeping the steps at any set of program
\* counters.
LongFilters ==
  {NoFilter} \cup {[kind |-> "pcIn", pcs |-> S] : S \in SUBSET LongPCs}

LongOptions ==
  [onTrace : {FALSE}, preFilter : LongFilters,
   postFilter : {NoFilter, [kind |-> "hasSourceLine", pcs |-> {}]},
   execLog : {FALSE}, exec : BOOLEAN]

LongCoverages == SUBSET LongPCs

LongReceipts == {r \in Receipts : r.contractAddress = "null"}

InitLong == Init /\ traceCollector = "TraceCollector"

NextLong ==
  \/ \E r \in LongReceipts, o \in LongOptions : StartCall(r, o) /\ UNCHANGED calls
  \/ \E ok \in BOOLEAN : GetCodeReturn(ok) /\ UNCHANGED calls
  \/ \E cd \in {None, Some(ContractData)}, S \in LongCoverages :
       GetContractDataReturn(cd, S) /\ UNCHANGED calls
  \/ \E rep \in LongReplies : RpcCallback(rep) /\ UNCHANGED calls
  \/ TraceTransactionResume /\ UNCHANGED calls
  \/ \E augThrows \in BOOLEAN : TraceResume(augThrows, 0) /\ UNCHANGED calls
  \/ \E ok \in BOOLEAN : ExecReturn(ok) /\ UNCHANGED calls
  \/ CallSettles /\ UNCHANGED calls

SpecLong == InitLong /\ [][NextLong]_vars

(***************************************************************************)
(* getSource on its own: applied once to a source file and a source range  *)
(* drawn from bounded sets.                                                *)
(***************************************************************************)
Alphabet ==
  <<"a", "b", "c", "d", "e", "f", "g", "h", "i", "j", "k", "l", "m", "n", "o",
    "p", "q", "r", "s", "t", "u", "v", "w", "x", "y", "z">>

\* The j-th character of line i of a file: the lines of a file share no
\* character and no line has one twice, so that a character lost, doubled or
\* moved shows.
charAt(i, j) == Alphabet[(((i - 1) * MaxLineLen + (j - 1)) % Len(Alphabet)) + 1]

\* Line i of a file, n characters long.
LineOf(i, n) == [j \in 1..n |-> charAt(i, j)]

\* sourceFile: the lines of a source text (an entry of inverted), one to
\* MaxLines lines of no to MaxLineLen characters each.
SourceFiles ==
  UNION {{[i \in 1..k |-> LineOf(i, lens[i])] : lens \in [1..k -> 0..MaxLineLen]} :
           k \in 1..MaxLines}

\* A column runs from 0 to past the end of the longest line.
Columns == 0..(MaxLineLen + 1)

SourceRange(l1, c1, l2, c2) ==
  [fileName |-> "A",
   location |-> [start |-> [line |-> l1, column |-> c1],
                 end |-> [line |-> l2, column |-> c2]]]

\* Two ranges far down a file.
RangeInLineTen == SourceRange(10, 4, 10, 9)
RangeFromLineTwelve == SourceRange(12, 2, 14, 5)

\* offset: the ranges over the lines 1..MaxLines, whatever the length of the
\* file they are applied to, with every pair of columns, and the two above.
Offsets ==
  {SourceRange(l1, c1, l2, c2) :
     l1 \in 1..MaxLines, l2 \in 1..MaxLines, c1 \in Columns, c2 \in Columns}
    \cup {RangeInLineTen, RangeFromLineTwelve}

\* getSource is about to be called with a range that does not end before it
\* starts.
InitExcerpt ==
  /\ traceCollector = "null" /\ contractsData = "undefined"
  /\ stage = "idle"
  /\ receipt = None /\ traceOpts = None
  /\ notFoundBefore = FALSE
  /\ FreshCall
  /\ calls = NoCalls
  /\ \E o \in Offsets, f \in SourceFiles :
       /\ o.location.start.line <= o.location.end.line
       /\ excerpt = [phase |-> "called", offset |-> o, sourceFile |-> f]

\* getSource(offset, sourceFile) runs and returns (lines 66-96).
ApplyGetSource ==
  /\ excerpt.phase = "called"
  /\ excerpt' = [phase |-> "returned", offset |-> excerpt.offset,
                 sourceFile |-> excerpt.sourceFile,
                 out |-> getSource(excerpt.offset, excerpt.sourceFile)]
  /\ UNCHANGED <<callVars, calls>>

NextExcerpt == ApplyGetSource

SpecExcerpt == InitExcerpt /\ [][NextExcerpt]_vars

(***************************************************************************)
(* Calls side by side: trace() called twice on one tracer, the second call *)
(* before the first has settled.  Each call is suspended at its own await; *)
(* whichever awaited promise settles next, that call runs to its next      *)
(* await.  The locals of a call (lines 106-149) live in the frame of its   *)
(* invocation.                                                             *)
(*                                                                         *)
(* One of the two calls is also run alone: whenever it takes a step beside *)
(* the other call, the call of Spec takes the step of the same lines on    *)
(* the variables of one call, given the same arguments and answered the    *)
(* same.  The other call takes its steps in between, at any await.         *)
(***************************************************************************)
CallIds == {1, 2}

\* The call that is also run alone.
Observed == 1

FreshLocals ==
  [address |-> "undefined", isContractCreation |-> None, bytecode |-> None,
   pcToSourceRange |-> None, inverted |-> None, trace |-> None,
   augmentedLogs |-> None, info |-> None, filteredLogs |-> None,
   postFilteredLogs |-> None]

\* What the collaborators have answered a call with: the artifact and the
\* program counters its source map covers, the provider's reply, and which
\* execLog invocation threw (0: none).
NothingGot == [cd |-> None, S |-> None, rep |-> None, throwAt |-> None]

IdleCall ==
  [stage |-> "idle", receipt |-> None, traceOpts |-> None,
   locals |-> FreshLocals, got |-> NothingGot, observer |-> "none",
   handlers |-> <<>>, all |-> NotJoined, batch |-> "none", metaCalls |-> <<>>,
   onTraceCalls |-> <<>>, execLogCalls |-> <<>>, execCalls |-> <<>>,
   error |-> None, result |-> None]

\* Mutant: the locals are declared once, in buildTracer, and every call
\* works on those.
MutantFrameOfTracer(c) == 1

\* Lines 105-106: every invocation of trace has bindings of its own.
frameOf(c) == c

\* The locals call c reads.
localsOf(cs, c) == cs[frameOf(c)].locals

\* Call c assigns locals.
assign(cs, c, upd) == [cs EXCEPT ![frameOf(c)].locals = Merge(@, upd)]

\* Call c moves on: its position, its promises, what it was answered.
proceed(cs, c, upd) == [cs EXCEPT ![c] = Merge(@, upd)]

hears(cs, c, upd) == proceed(cs, c, [got |-> Merge(cs[c].got, upd)])

\* The inputs of the calls side by side: a creation and an ordinary call,
\* two sets of options, two source maps, two traces.
ConcReceipts == {r \in Receipts : r.contractAddress # "undefined"}
ConcOptions ==
  {[onTrace |-> TRUE, preFilter |-> NoFilter, postFilter |-> NoFilter,
    execLog |-> TRUE, exec |-> TRUE],
   [onTrace |-> FALSE, preFilter |-> [kind |-> "pcIn", pcs |-> {0}],
    postFilter |-> [kind |-> "hasSourceLine", pcs |-> {}],
    execLog |-> FALSE, exec |-> TRUE]}
ConcCoverages == {PCs, {0}}
ConcReplies ==
  {rp \in RpcReplies :
     \/ IsSome(rp.err)
     \/ /\ IsSome(rp.result)
        /\ Val(rp.result).structLogs \in
             {<<RawStep(0), RawStep(1)>>, <<RawStep(0)>>}}

InitConc ==
  /\ \/ traceCollector = "null" /\ contractsData = "undefined"
     \/ traceCollector = "TraceCollector" /\ contractsData = "artifacts"
  /\ stage = "idle"
  /\ receipt = None /\ traceOpts = None
  /\ notFoundBefore = FALSE
  /\ FreshCall
  /\ excerpt = NoExcerpt
  /\ calls = [c \in CallIds |-> IdleCall]

\* The variables of one call and of getSource on its own: the run alone of
\* the observed call works on the former, a step of the other call leaves
\* them as they are.
concFrame == <<stage, receipt, traceOpts, address, isContractCreation, bytecode,
               pcToSourceRange, inverted, reply, trace, observer, augmentedLogs,
               info, filteredLogs, postFilteredLogs, handlers, all, batch, error,
               result, notFoundBefore, getCodeCalls, metaCalls, parseCalls,
               rpcCalls, onTraceCalls, augmentCalls, execLogCalls, execCalls, ran,
               seen, excerpt>>

\* trace(r, o) is called (lines 105-110, or 105-128 without a trace collector).
CallStarts(c, r, o) ==
  /\ calls[c].stage = "idle"
  /\ calls' =
       IF traceCollector # "null"
         THEN proceed(assign(calls, c,
                             [address |-> targetAddress(r),
                              isContractCreation |-> Some(creationFlag(r))]),
                      c, [stage |-> "getCode", receipt |-> Some(r),
                          traceOpts |-> Some(o)])
         ELSE proceed(calls, c, [stage |-> "rpc", receipt |-> Some(r),
                                 traceOpts |-> Some(o)])
  /\ UNCHANGED tracerVars

\* Lines 110-111 of call c.
CallGetCodeReturn(c, ok) ==
  /\ calls[c].stage = "getCode"
  /\ calls' =
       IF ok
         THEN proceed(assign(calls, c, [bytecode |-> Some(DeployedBytecode)]), c,
                      [stage |-> "getContractData",
                       metaCalls |->
                         <<[address |-> localsOf(calls, c).address,
                            bytecode |-> DeployedBytecode,
                            isContractCreation |->
                              Val(localsOf(calls, c).isContractCreation)]>>])
         ELSE proceed(calls, c, [stage |-> "failed",
                                 error |-> Some(TransportError("getCode"))])
  /\ UNCHANGED tracerVars

\* Lines 111-128 of call c.
CallGetContractDataReturn(c, cd, S) ==
  /\ calls[c].stage = "getContractData"
  /\ calls' =
       IF ~IsSome(cd)
         THEN proceed(calls, c,
                      [stage |-> "failed",
                       error |-> Some(ContractDataError(localsOf(calls, c).address))])
         ELSE proceed(assign(hears(calls, c, [cd |-> cd, S |-> Some(S)]), c,
                             [pcToSourceRange |-> Some(parseSourceMap(S)),
                              inverted |-> Some(invertedOf(Val(cd)))]),
                      c, [stage |-> "rpc"])
  /\ UNCHANGED tracerVars

\* Lines 134-161 of call c on the trace tr, up to the next await.
runPipeline(cs, c, tr, throwAt) ==
  LET mine == localsOf(cs, c)
      p == pipeline(tr, Val(cs[c].traceOpts), mine.pcToSourceRange, mine.inverted,
                    FALSE, throwAt)
  IN  proceed(assign(hears(cs, c, [throwAt |-> Some(throwAt)]), c,
                     [augmentedLogs |-> p.augmentedLogs, info |-> p.info,
                      filteredLogs |-> p.filteredLogs,
                      postFilteredLogs |-> p.postFilteredLogs]),
              c, [stage |-> p.stage, handlers |-> p.handlers, all |-> p.all,
                  batch |-> p.batch, execLogCalls |-> p.execLogCalls,
                  execCalls |-> p.execCalls, error |-> p.error,
                  result |-> p.result])

\* Line 57 for call c: the provider calls back, the promise of rpc settles.
CallRpcCallback(c, rep) ==
  /\ calls[c].stage = "rpc"
  /\ calls' = proceed(hears(calls, c, [rep |-> Some(rep)]), c,
                      [stage |-> "rpcSettled"])
  /\ UNCHANGED tracerVars

\* Lines 61-63 for call c: traceTransaction resumes and settles its promise.
CallTraceTransactionResume(c) ==
  /\ calls[c].stage = "rpcSettled"
  /\ calls' = proceed(calls, c, [stage |-> "fetched"])
  /\ UNCHANGED tracerVars

\* Call c resumes from the await of line 128 (lines 128-132 and, without an
\* observer, on through line 161).
CallTraceResume(c, throwAt) ==
  /\ calls[c].stage = "fetched"
  /\ LET fetched == traceTransactionOutcome(Val(calls[c].got.rep))
     IN  calls' =
           IF fetched.state = "rejected"
             THEN proceed(calls, c, [stage |-> "failed", error |-> fetched.reason])
           ELSE IF observerConfigured(Val(calls[c].traceOpts))
             THEN proceed(assign(calls, c, [trace |-> fetched.value]), c,
                          [stage |-> "onTrace", observer |-> "pending",
                           onTraceCalls |-> <<fetched.value>>])
           ELSE runPipeline(assign(calls, c, [trace |-> fetched.value]), c,
                            fetched.value, throwAt)
  /\ UNCHANGED tracerVars

\* Lines 131-161 of call c.
CallOnTraceReturn(c, ok, throwAt) ==
  /\ calls[c].stage = "onTrace"
  /\ calls' =
       IF ok
         THEN runPipeline(proceed(calls, c, [observer |-> "fulfilled"]), c,
                          afterObserver(localsOf(calls, c).trace, None), throwAt)
         ELSE proceed(calls, c, [stage |-> "failed", observer |-> "rejected",
                                 error |-> Some(CallbackError("onTrace", 0))])
  /\ UNCHANGED tracerVars

\* The promise an execLog invocation of call c returned settles.
CallHandlerSettle(c, i, ok) ==
  /\ i \in 1..Len(calls[c].handlers)
  /\ calls[c].handlers[i] = "pending"
  /\ LET hs == [calls[c].handlers EXCEPT
                  ![i] = IF ok THEN "fulfilled" ELSE "rejected"]
     IN  calls' = proceed(calls, c, [handlers |-> hs,
                                     all |-> joinAfter(calls[c].all, hs, i, ok)])
  /\ UNCHANGED tracerVars

\* The await of line 154 of call c resumes (lines 154-161).
CallAwaitAllResume(c) ==
  /\ calls[c].stage = "awaitAll"
  /\ calls[c].all.state \in {"fulfilled", "rejected"}
  /\ calls' =
       IF calls[c].all.state = "rejected"
         THEN proceed(calls, c, [stage |-> "failed", error |-> calls[c].all.reason])
         ELSE LET r == batchOrReturn(Val(calls[c].traceOpts),
                                     Val(localsOf(calls, c).postFilteredLogs),
                                     Val(localsOf(calls, c).info),
                                     [stage |-> calls[c].stage,
                                      batch |-> calls[c].batch,
                                      execCalls |-> calls[c].execCalls,
                                      result |-> calls[c].result, ran |-> <<>>])
              IN  proceed(calls, c, [stage |-> r.stage, batch |-> r.batch,
                                     execCalls |-> r.execCalls,
                                     result |-> r.result])
  /\ UNCHANGED tracerVars

\* The batch handler's promise of call c settles (lines 158-161).
CallExecReturn(c, ok) ==
  /\ calls[c].stage = "exec"
  /\ calls' =
       IF ok
         THEN proceed(calls, c,
                      [stage |-> "done", batch |-> "fulfilled",
                       result |-> Some(Val(localsOf(calls, c).postFilteredLogs))])
         ELSE proceed(calls, c, [stage |-> "failed", batch |-> "rejected",
                                 error |-> Some(CallbackError("exec", 0))])
  /\ UNCHANGED tracerVars

\* A step of either call; with a step of the observed call, the same step
\* of that call run alone.
NextConc ==
  \/ \E c \in CallIds, r \in ConcReceipts, o \in ConcOptions :
       /\ CallStarts(c, r, o)
       /\ IF c = Observed THEN StartCall(r, o) ELSE UNCHANGED concFrame
  \/ \E c \in CallIds, ok \in BOOLEAN :
       /\ CallGetCodeReturn(c, ok)
       /\ IF c = Observed THEN GetCodeReturn(ok) ELSE UNCHANGED concFrame
  \/ \E c \in CallIds, cd \in {None, Some(ContractData)}, S \in ConcCoverages :
       /\ CallGetContractDataReturn(c, cd, S)
       /\ IF c = Observed THEN GetContractDataReturn(cd, S)
                          ELSE UNCHANGED concFrame
  \/ \E c \in CallIds, rep \in ConcReplies :
       /\ CallRpcCallback(c, rep)
       /\ IF c = Observed THEN RpcCallback(rep) ELSE UNCHANGED concFrame
  \/ \E c \in CallIds :
       /\ CallTraceTransactionResume(c)
       /\ IF c = Observed THEN TraceTransactionResume ELSE UNCHANGED concFrame
  \/ \E c \in CallIds, throwAt \in 0..1 :
       /\ CallTraceResume(c, throwAt)
       /\ IF c = Observed THEN TraceResume(FALSE, throwAt)
                          ELSE UNCHANGED concFrame
  \/ \E c \in CallIds, ok \in BOOLEAN, throwAt \in 0..1 :
       /\ CallOnTraceReturn(c, ok, throwAt)
       /\ IF c = Observed THEN OnTraceReturn(ok, None, FALSE, throwAt)
                          ELSE UNCHANGED concFrame
  \/ \E c \in CallIds, i \in 1..MaxSteps, ok \in BOOLEAN :
       /\ CallHandlerSettle(c, i, ok)
       /\ IF c = Observed THEN HandlerSettle(i, ok) ELSE UNCHANGED concFrame
  \/ \E c \in CallIds :
       /\ CallAwaitAllResume(c)
       /\ IF c = Observed THEN AwaitAllResume ELSE UNCHANGED concFrame
  \/ \E c \in CallIds, ok \in BOOLEAN :
       /\ CallExecReturn(c, ok)
       /\ IF c = Observed THEN ExecReturn(ok) ELSE UNCHANGED concFrame

SpecConc == InitConc /\ [][NextConc]_vars

(***************************************************************************)
(* Properties.                                                             *)
(***************************************************************************)
\* a carries every field of b with b's value: b itself, or b annotated.
Extends(a, b) == (DOMAIN b) \subseteq (DOMAIN a) /\ \A k \in DOMAIN b : a[k] = b[k]

\* out is aug with steps removed and steps annotated, nothing else.
IsSubsequenceOf(out, aug) ==
  \E f \in [1..Len(out) -> 1..Len(aug)] :
    /\ \A i, j \in 1..Len(out) : i < j => f[i] < f[j]
    /\ \A i \in 1..Len(out) : Extends(out[i], aug[f[i]])

opts == Val(traceOpts)

\* C1: whatever trace() returns is the augmented sequence with steps removed
\* and steps annotated: nothing swapped, duplicated or inserted.
C1_StepOrderPreserved ==
  IsSome(result) => IsSubsequenceOf(Val(result), Val(augmentedLogs))

\* Both filters and the annotation ran; one of two steps came back, annotated.
C1_Witness ==
  /\ IsSome(result) /\ IsSome(pcToSourceRange)
  /\ opts.preFilter.kind # "undefined" /\ opts.postFilter.kind # "undefined"
  /\ Len(Val(augmentedLogs)) = 2 /\ Len(Val(result)) = 1
  /\ "sourceLine" \in DOMAIN Val(result)[1]

\* C2: a step that survives the pre-filter and whose program counter the table
\* does not hold never makes the call fail on the field of an undefined
\* value: the call goes on, or fails as UnresolvedProgramCounter.
C2_UnmappedPcHandled ==
  (/\ IsSome(pcToSourceRange) /\ IsSome(filteredLogs)
   /\ unmapped(Val(filteredLogs), Val(pcToSourceRange)) # {})
    => (stage = "failed" => Val(error).name = "UnresolvedProgramCounter")

\* The execLog invocations that failed: rejected, or thrown before returning.
failures == {i \in 1..Len(handlers) : handlers[i] \in {"rejected", "threw"}}

\* C3: with at least one failed execLog invocation, whatever the order the
\* invocations settle in, the call returns nothing and never invokes exec; it
\* is rejected or about to be (the join it awaits has rejected), and the value
\* it rejects with is the failure of one of the failed invocations.
C3_DispatchFailureRejects ==
  failures # {} =>
    /\ result = None
    /\ execCalls = <<>>
    /\ stage \in {"awaitAll", "failed"}
    /\ stage = "awaitAll" => all.state = "rejected"
    /\ stage = "failed" =>
         /\ IsSome(error)
         /\ \E i \in failures : Val(error) = CallbackError("execLog", i)

\* Both of two invocations failed, the second one first.
C3_Witness ==
  /\ stage = "failed"
  /\ handlers = <<"rejected", "rejected">>
  /\ Val(error) = CallbackError("execLog", 2)

\* What execLog is to be called with: every post-filter step, in order, with
\* the provenance record augmentation returned.
expectedExecLogCalls ==
  [i \in 1..Len(Val(postFilteredLogs)) |->
     [log |-> Val(postFilteredLogs)[i], info |-> Val(info)]]

dispatched == stage # "idle" /\ IsSome(postFilteredLogs) /\ opts.execLog

\* C4 as stated: with execLog configured it is invoked once for each step of
\* the post-filter sequence, whatever the invocations do.
C4_EveryStepDispatched ==
  dispatched =>
    /\ execLogCalls = expectedExecLogCalls
    /\ Len(handlers) = Len(Val(postFilteredLogs))

\* C4 as amended: execLog is invoked once per post-filter step, in order, with
\* augmentation's provenance record, all of them before any is awaited, so
\* that a rejected or pending promise keeps none from being started; an
\* invocation that throws before returning its promise ends the dispatch: the
\* steps after it get no invocation and the call rejects with what was thrown.
C4_DispatchUnlessThrown ==
  dispatched =>
    IF \E k \in 1..Len(handlers) : handlers[k] = "threw"
      THEN LET k == CHOOSE j \in 1..Len(handlers) : handlers[j] = "threw"
           IN  /\ k = Len(handlers)
               /\ execLogCalls = SubSeq(expectedExecLogCalls, 1, k)
               /\ stage = "failed"
               /\ error = Some(CallbackError("execLog", k))
      ELSE /\ execLogCalls = expectedExecLogCalls
           /\ Len(handlers) = Len(Val(postFilteredLogs))
           /\ Val(info) = augmentLogs(Val(trace).structLogs).info

\* The first of two invocations has rejected while the second is running.
C4_Witness ==
  /\ dispatched
  /\ handlers = <<"rejected", "pending">>
  /\ Len(execLogCalls) = 2
  /\ opts.preFilter.kind # "undefined"

\* C5: exec is invoked at most once, with the post-filter sequence and the
\* provenance record, and only when every execLog invocation has fulfilled
\* (or none was made, execLog being left out); a call given exec returns only
\* once exec's promise has fulfilled, and fails when it rejects.
C5_BatchAfterAllSteps ==
  stage # "idle" =>
    /\ Len(execCalls) <= 1
    /\ execCalls # <<>> =>
         /\ opts.exec
         /\ IsSome(postFilteredLogs)
         /\ execCalls[1] = [logs |-> Val(postFilteredLogs), info |-> Val(info)]
         /\ IF opts.execLog
              THEN /\ Len(handlers) = Len(Val(postFilteredLogs))
                   /\ \A i \in 1..Len(handlers) : handlers[i] = "fulfilled"
              ELSE handlers = <<>>
    /\ (stage = "done" /\ opts.exec) => batch = "fulfilled" /\ execCalls # <<>>
    /\ batch = "pending" => stage = "exec" /\ result = None
    /\ batch = "rejected" =>
         /\ stage = "failed" /\ result = None
         /\ error = Some(CallbackError("exec", 0))

\* exec ran after two fulfilled execLog invocations and the call returned.
C5_Witness ==
  /\ stage = "done" /\ batch = "fulfilled"
  /\ handlers = <<"fulfilled", "fulfilled">>
  /\ Val(result) = execCalls[1].logs

\* The provider has called back and trace() has not yet resumed from the
\* await of line 128: the reply is there and the call has seen none of it.
replyHeld == stage \in {"rpcSettled", "fetched"}

\* C6: a configured observer is invoked once, with the fetched trace, in the
\* run in which trace() resumes from the fetch and not before;
\* augmentation starts only after its promise has fulfilled, and is given the
\* fetched trace whatever the observer's promise fulfilled with; when the
\* promise rejects the call fails and nothing after the observer has run.
C6_ObserverFirst ==
  stage # "idle" =>
    /\ Len(onTraceCalls) <= 1
    /\ ~opts.onTrace => onTraceCalls = <<>> /\ observer = "none"
    /\ (opts.onTrace /\ IsSome(reply) /\ ~IsSome(Val(reply).err)) =>
         onTraceCalls = IF replyHeld THEN <<>> ELSE <<Val(reply).result>>
    /\ replyHeld => observer = "none" /\ trace = None /\ augmentCalls = <<>>
    /\ (opts.onTrace /\ augmentCalls # <<>>) => observer = "fulfilled"
    /\ augmentCalls # <<>> =>
         augmentCalls = <<Val(Val(reply).result).structLogs>>
    /\ observer = "pending" => stage = "onTrace" /\ augmentCalls = <<>>
    /\ observer = "rejected" =>
         /\ stage = "failed" /\ error = Some(CallbackError("onTrace", 0))
         /\ augmentCalls = <<>> /\ augmentedLogs = None
         /\ filteredLogs = None /\ postFilteredLogs = None
         /\ execLogCalls = <<>> /\ execCalls = <<>> /\ result = None

\* The observer fulfilled and the call went on to return two steps.
C6_Witness ==
  /\ stage = "done" /\ observer = "fulfilled"
  /\ onTraceCalls = <<trace>>
  /\ Len(Val(result)) = 2

\* The node turned the request down: the provider reported an error, or
\* delivered a JSON-RPC error response.
nodeRejected ==
  IsSome(reply) /\ (IsSome(Val(reply).err) \/ IsSome(Val(reply).error))

nodeFailure ==
  IF IsSome(Val(reply).err) THEN Val(reply).err ELSE Val(reply).error

\* C7: when the node turns debug_traceTransaction down, the call, once it
\* has resumed from the fetch, has failed with the node's failure itself,
\* after one request, and neither the observer nor augmentation nor a handler
\* has run.
C7_TransportFailurePropagates ==
  nodeRejected =>
    /\ ~replyHeld => stage = "failed" /\ error = nodeFailure
    /\ Len(rpcCalls) = 1
    /\ onTraceCalls = <<>> /\ augmentCalls = <<>>
    /\ execLogCalls = <<>> /\ execCalls = <<>>

\* The address a receipt's transaction is resolved at.
receiptAddress(r) ==
  IF Truthy(r.contractAddress) THEN r.contractAddress ELSE r.to

\* C8: a call for which the trace collector finds no artifact fails with the
\* error naming the queried address, before the trace is requested and before
\* observer, augmentation, filters or handlers run; the tracer is as it was
\* built, every local of the failed call is gone when the next call starts,
\* and a later call whose bytecode matches gets its source table.
C8_NotFoundIsolated ==
  /\ (stage \notin {"idle", "getCode", "getContractData"}
      /\ metaCalls # <<>> /\ parseCalls = <<>>)
       => stage = "failed" /\ noContractData(error)
  /\ (stage = "failed" /\ noContractData(error)) =>
       /\ Val(error).message[2] = receiptAddress(Val(receipt))
       /\ getCodeCalls = <<receiptAddress(Val(receipt))>>
       /\ rpcCalls = <<>> /\ reply = None /\ trace = None
       /\ onTraceCalls = <<>> /\ augmentCalls = <<>>
       /\ filteredLogs = None /\ postFilteredLogs = None
       /\ execLogCalls = <<>> /\ execCalls = <<>> /\ result = None
  /\ notFoundBefore =>
       /\ traceCollector = "TraceCollector" /\ contractsData = "artifacts"
       /\ stage = "idle" => FreshCall
       /\ parseCalls # <<>> => IsSome(pcToSourceRange) /\ IsSome(inverted)

\* After a call that found no contract data, a call on the same tracer
\* resolved its sources and returned an annotated step.
C8_Witness ==
  /\ notFoundBefore /\ stage = "done"
  /\ Len(Val(result)) >= 1
  /\ "sourceLine" \in DOMAIN Val(result)[1]

\* C9: the transaction is taken for a creation exactly when the receipt
\* carries a created-contract address; the address resolved, the flag given to
\* the trace collector and the source map selected all follow from that.
C9_CreationFlagMatchesAddress ==
  metaCalls # <<>> =>
    LET r == Val(receipt)
        creation == Truthy(r.contractAddress)
    IN  /\ metaCalls[1].isContractCreation = creation
        /\ metaCalls[1].address = (IF creation THEN r.contractAddress ELSE r.to)
        /\ getCodeCalls = <<metaCalls[1].address>>
        /\ parseCalls # <<>> =>
             parseCalls[1].sourceMap =
               (IF creation THEN ContractData.sourceMap
                ELSE ContractData.sourceMapRuntime)

unfiltered ==
  /\ stage = "done" /\ traceCollector = "null"
  /\ opts.preFilter.kind = "undefined" /\ opts.postFilter.kind = "undefined"

\* C10: without filters and without source resolution a call that returns
\* returns as many steps as the raw trace has, the i-th of them the i-th step
\* augmentation produced from that trace, handlers or not.
C10_UnfilteredReturnsAll ==
  unfiltered =>
    LET raw == Val(Val(reply).result).structLogs
        out == Val(result)
    IN  /\ augmentCalls = <<raw>>
        /\ Len(out) = Len(raw)
        /\ \A i \in 1..Len(out) : out[i] = Val(augmentedLogs)[i]

\* A trace of MaxSteps steps came back whole, both handlers having run.
C10_Witness ==
  /\ unfiltered /\ opts.execLog /\ opts.exec
  /\ Len(Val(result)) = MaxSteps
  /\ Len(execLogCalls) = MaxSteps /\ Len(execCalls) = 1

\* A predicate holds of a step; a predicate left out keeps every step.
Holds(f, log) == f.kind = "undefined" \/ Test(f, log)

hasSourceTable == IsSome(pcToSourceRange) /\ IsSome(inverted)

\* The step as it is once the annotation stage is over.
annotatedView(log) ==
  IF hasSourceTable THEN annotateLog(log, Val(pcToSourceRange), Val(inverted)) ELSE log

\* The steps of the augmented sequence the pre-filter keeps.
survivors == SelectSeq(Val(augmentedLogs), LAMBDA l : Holds(opts.preFilter, l))

\* C11: when the annotation stage has gone through (it removes and reorders
\* nothing), the post-filter sequence, and the sequence returned, is the
\* augmented sequence under one order-preserving filter that keeps exactly
\* the steps of which both predicates hold, the pre-filter predicate of the
\* step as augmentation produced it and the post-filter predicate of the step
\* as annotated; each kept step is returned as annotated.
C11_FilterComposition ==
  IsSome(postFilteredLogs) =>
    LET both == SelectSeq(Val(augmentedLogs),
                          LAMBDA l : /\ Holds(opts.preFilter, l)
                                     /\ Holds(opts.postFilter, annotatedView(l)))
        single == [i \in 1..Len(both) |-> annotatedView(both[i])]
    IN  /\ Val(postFilteredLogs) = single
        /\ IsSome(result) => Val(result) = single

\* Both predicates were given; of two steps the pre-filter kept the first,
\* the post-filter kept it as well, and it was returned.
C11_Witness ==
  /\ stage = "done" /\ hasSourceTable
  /\ opts.preFilter.kind = "pcIn" /\ opts.postFilter.kind = "hasSourceLine"
  /\ Len(Val(augmentedLogs)) = 2
  /\ Len(Val(result)) = 1 /\ Val(result)[1].sha = 1

\* Every step of logs carries the label and the excerpt.
fullyAnnotated(logs) ==
  \A i \in 1..Len(logs) : {"sourceLine", "source"} \subseteq DOMAIN logs[i]

\* Every stage the call was to go through has succeeded.
everyStageSucceeded ==
  /\ traceCollector # "null" =>
       /\ IsSome(bytecode) /\ metaCalls # <<>> /\ parseCalls # <<>>
       /\ IsSome(pcToSourceRange) /\ IsSome(inverted)
  /\ IsSome(reply) /\ ~IsSome(Val(reply).err) /\ IsSome(trace)
  /\ opts.onTrace => observer = "fulfilled"
  /\ IsSome(augmentedLogs) /\ IsSome(filteredLogs) /\ IsSome(postFilteredLogs)
  /\ Val(filteredLogs) = [i \in 1..Len(survivors) |-> annotatedView(survivors[i])]
  /\ hasSourceTable => fullyAnnotated(Val(filteredLogs))
  /\ opts.execLog =>
       /\ Len(handlers) = Len(Val(postFilteredLogs))
       /\ \A i \in 1..Len(handlers) : handlers[i] = "fulfilled"
  /\ opts.exec => batch = "fulfilled"

\* C12: a call that has ended has either returned a sequence or rejected,
\* never both; it returns only when every stage it was to go through has
\* succeeded, and what it returns is the post-filter sequence, the one each
\* handler was given; a call that rejects returns nothing.
C12_NoPartialResults ==
  /\ stage \in {"done", "failed"} <=> (IsSome(result) \/ IsSome(error))
  /\ ~(IsSome(result) /\ IsSome(error))
  /\ IsSome(error) <=> stage = "failed"
  /\ IsSome(result) =>
       /\ stage = "done"
       /\ everyStageSucceeded
       /\ Val(result) = Val(postFilteredLogs)
       /\ opts.execLog =>
            execLogCalls = [i \in 1..Len(Val(result)) |->
                              [log |-> Val(result)[i], info |-> Val(info)]]
       /\ opts.exec => execCalls = <<[logs |-> Val(result), info |-> Val(info)]>>

\* exec rejected after every execLog invocation had fulfilled: the call
\* failed and returned nothing, though the whole sequence was there.
C12_Witness ==
  /\ stage = "failed" /\ batch = "rejected" /\ result = None
  /\ handlers = <<"fulfilled", "fulfilled">>
  /\ Len(Val(postFilteredLogs)) = 2 /\ hasSourceTable

\* The only augmented steps the source table does not hold are steps the
\* pre-filter removes.
onlyFilteredUnmapped ==
  /\ stage # "idle" /\ hasSourceTable /\ IsSome(augmentedLogs)
  /\ unmapped(survivors, Val(pcToSourceRange)) = {}

\* C14: when the only steps whose program counter the source table does not
\* hold are steps the pre-filter removes, the annotation goes through: the
\* call does not fail on a lookup (it fails only if a handler does), the
\* annotated sequence is the pre-filter's survivors, each annotated, in order,
\* and exec is given the post-filter of exactly that sequence with the
\* provenance record augmentation returned; without a post-filter what exec
\* is given is, step for step and in the order of the trace, the augmented
\* steps the pre-filter predicate holds of, every one annotated.
C14_AnnotationOnlyOnSurvivors ==
  onlyFilteredUnmapped =>
    LET annotated == annotateLogs(survivors, Val(pcToSourceRange), Val(inverted))
        aug == Val(augmentedLogs)
    IN  /\ stage = "failed" => Val(error).name = "CallbackError"
        /\ filteredLogs = Some(annotated)
        /\ postFilteredLogs = Some(postFilterLogs(opts, annotated))
        /\ opts.postFilter.kind = "undefined" => postFilteredLogs = Some(annotated)
        /\ execCalls # <<>> =>
             execCalls = <<[logs |-> Val(postFilteredLogs),
                            info |-> augmentLogs(Val(trace).structLogs).info]>>
        /\ (stage = "done" /\ opts.exec) => execCalls # <<>>
        /\ (execCalls # <<>> /\ opts.postFilter.kind = "undefined") =>
             LET given == execCalls[1].logs
             IN  /\ fullyAnnotated(given)
                 /\ \A i, j \in 1..Len(given) : i < j => given[i].sha < given[j].sha
                 /\ {given[i].sha : i \in 1..Len(given)}
                      = {k \in 1..Len(aug) : Holds(opts.preFilter, aug[k])}
                 /\ \A i \in 1..Len(given) :
                      /\ Extends(given[i], aug[given[i].sha])
                      /\ given[i].sourceLine
                           = sourceLineOf(Val(pcToSourceRange)[given[i].pc])

\* Three raw steps; the pre-filter removed the second, the only one whose
\* program counter the table does not hold; the table maps the first and the
\* third to different ranges; there is no post-filter; exec was given the
\* first and the third step, annotated, in that order, with the provenance
\* record of all three, and the call returned them.
C14_Witness ==
  /\ onlyFilteredUnmapped /\ stage = "done"
  /\ Len(Val(augmentedLogs)) = 3
  /\ unmapped(Val(augmentedLogs), Val(pcToSourceRange)) = {2}
  /\ ~Holds(opts.preFilter, Val(augmentedLogs)[2])
  /\ Val(pcToSourceRange)[Val(augmentedLogs)[1].pc]
       # Val(pcToSourceRange)[Val(augmentedLogs)[3].pc]
  /\ opts.postFilter.kind = "undefined"
  /\ Len(execCalls) = 1 /\ Len(execCalls[1].logs) = 2
  /\ execCalls[1].logs[1].sha = 1 /\ execCalls[1].logs[2].sha = 3
  /\ fullyAnnotated(execCalls[1].logs)
  /\ execCalls[1].logs[1].sourceLine # execCalls[1].logs[2].sourceLine
  /\ execCalls[1].info.inv = [i \in 1..3 |-> Val(trace).structLogs[i].pc]
  /\ Val(result) = execCalls[1].logs

\* The stages of a call, in the order of the code.
StageOrder ==
  <<"getCode", "getContractData", "parseSourceMap", "fetch", "onTrace",
    "augmentLogs", "preFilter", "annotate", "postFilter", "execLog", "exec",
    "return">>

rank(s) == CHOOSE k \in 1..Len(StageOrder) : StageOrder[k] = s

hasStarted(s) == \E i \in 1..Len(ran) : ran[i] = s

\* The stage a call suspended at an await is waiting in.
awaited ==
  [getCode |-> "getCode", getContractData |-> "getContractData", rpc |-> "fetch",
   rpcSettled |-> "fetch", fetched |-> "fetch",
   onTrace |-> "onTrace", awaitAll |-> "execLog", exec |-> "exec",
   done |-> "return"]

\* C18: the stages of a call start in the fixed order, none twice; source
\* resolution is gone through in full before the fetch when a trace collector
\* exists and skipped otherwise, the observer and the handlers when they are
\* given, the annotation when there is a source table; a stage starts only
\* when all that come before it are over, the suspended call waiting in the
\* stage that started last; the pre-filter predicate is applied to steps
\* without annotation only, the post-filter predicate and the handlers, when
\* there is a source table, to annotated steps only.
C18_StageOrder ==
  stage # "idle" =>
    /\ \A i, j \in 1..Len(ran) : i < j => rank(ran[i]) < rank(ran[j])
    /\ ran[1] = IF traceCollector # "null" THEN "getCode" ELSE "fetch"
    /\ hasStarted("fetch") =>
         (traceCollector # "null" =>
            /\ hasStarted("getCode") /\ hasStarted("getContractData")
            /\ hasStarted("parseSourceMap"))
    /\ hasStarted("augmentLogs") =>
         /\ hasStarted("fetch")
         /\ opts.onTrace <=> hasStarted("onTrace")
    /\ hasStarted("preFilter") => hasStarted("augmentLogs")
    /\ hasStarted("annotate") => hasStarted("preFilter") /\ hasSourceTable
    /\ hasStarted("postFilter") =>
         /\ hasStarted("preFilter")
         /\ hasSourceTable <=> hasStarted("annotate")
    /\ hasStarted("execLog") => hasStarted("postFilter") /\ opts.execLog
    /\ hasStarted("exec") =>
         /\ hasStarted("postFilter") /\ opts.exec
         /\ opts.execLog <=> hasStarted("execLog")
    /\ hasStarted("return") =>
         /\ hasStarted("postFilter")
         /\ opts.execLog <=> hasStarted("execLog")
         /\ opts.exec <=> hasStarted("exec")
    /\ stage \in DOMAIN awaited => ran[Len(ran)] = awaited[stage]
    /\ \A i \in 1..Len(seen.pre) : "sourceLine" \notin DOMAIN seen.pre[i]
    /\ hasSourceTable =>
         /\ fullyAnnotated(seen.post)
         /\ \A i \in 1..Len(execLogCalls) : fullyAnnotated(<<execLogCalls[i].log>>)
         /\ \A i \in 1..Len(execCalls) : fullyAnnotated(execCalls[i].logs)

\* A call went through every stage, with a source table, both predicates
\* applied to two steps each.
C18_Witness ==
  /\ ran = StageOrder
  /\ Len(seen.pre) = 2 /\ Len(seen.post) = 2

\* An execLog invocation has rejected.
someRejected == \E i \in 1..Len(handlers) : handlers[i] = "rejected"

\* C19, the states: once an execLog invocation has rejected the awaited join
\* has rejected and the call can go on to fail at once, whatever the other
\* invocations do; after the call has failed a pending invocation can still
\* settle, either way; and a call given execLog has gone past the join (to
\* exec or to its return) only with every invocation fulfilled, the join
\* staying pending while none has rejected and one is still running.
C19_JoinStates ==
  /\ (stage = "awaitAll" /\ someRejected) =>
       /\ all.state = "rejected"
       /\ ENABLED AwaitAllResume
  /\ \A i \in 1..Len(handlers) :
       (stage = "failed" /\ handlers[i] = "pending") =>
         /\ ENABLED HandlerSettle(i, TRUE)
         /\ ENABLED HandlerSettle(i, FALSE)
  /\ (stage = "awaitAll" /\ ~someRejected
      /\ \E i \in 1..Len(handlers) : handlers[i] = "pending") =>
       all.state = "pending" /\ ~ENABLED AwaitAllResume
  /\ (stage \in {"exec", "done"} /\ opts.execLog) =>
       /\ Len(handlers) = Len(Val(postFilteredLogs))
       /\ \A i \in 1..Len(handlers) : handlers[i] = "fulfilled"

\* C19, the steps: the awaited join having rejected, the call's next step
\* takes it to Failed with the first rejection; and nothing that happens
\* after a call has failed changes its outcome as long as the caller has not
\* taken it.
C19_JoinSteps ==
  /\ (stage = "awaitAll" /\ all.state = "rejected" /\ stage' # stage) =>
       stage' = "failed" /\ error' = all.reason
  /\ (stage = "failed" /\ stage' # "idle") =>
       /\ stage' = "failed" /\ error' = error /\ result' = None
       /\ execCalls' = execCalls

\* C19: fail-fast join.
C19_FailFastJoin == []C19_JoinStates /\ [][C19_JoinSteps]_vars

\* The call failed on the rejection of the second invocation while the first
\* was still running; the first then fulfilled, and the call is failed as
\* before.
C19_Witness ==
  /\ stage = "failed"
  /\ handlers = <<"fulfilled", "rejected">>
  /\ all.state = "rejected"
  /\ error = Some(CallbackError("execLog", 2))
  /\ execCalls = <<>>

\* C19, second case: the call has failed with an invocation still pending.
C19_WitnessPending ==
  /\ stage = "failed" /\ handlers = <<"pending", "rejected">>

\* The fields the annotation stage sets.
annotationFields == {"source", "sourceLine"}

\* C20: once the annotation stage is over, with a source table each annotated
\* step has the fields of the pre-filter survivor it was made from and the
\* two annotation fields, and every field of the survivor with the
\* survivor's value; without a source table the sequence is the survivors
\* themselves; and the augmented steps are still what augmentation returned,
\* none of them carrying an annotation field.
C20_AnnotationFrame ==
  IsSome(postFilteredLogs) =>
    LET out == Val(filteredLogs)
    IN  /\ Len(out) = Len(survivors)
        /\ \A i \in 1..Len(out) :
             IF hasSourceTable
               THEN /\ DOMAIN out[i] = (DOMAIN survivors[i]) \cup annotationFields
                    /\ \A k \in (DOMAIN survivors[i]) \ annotationFields :
                         out[i][k] = survivors[i][k]
               ELSE out[i] = survivors[i]
        /\ Val(augmentedLogs) = augmentLogs(Val(trace).structLogs).logs
        /\ \A i \in 1..Len(Val(augmentedLogs)) :
             /\ (DOMAIN Val(augmentedLogs)[i]) \cap annotationFields = {}
             /\ Extends(Val(augmentedLogs)[i], Val(trace).structLogs[i])

\* Two steps were annotated, the second with a multi-line excerpt.
C20_Witness ==
  /\ IsSome(postFilteredLogs) /\ hasSourceTable
  /\ Len(Val(filteredLogs)) = 2
  /\ Val(filteredLogs)[1].pc = 0 /\ Val(filteredLogs)[2].pc = 1
  /\ Val(filteredLogs)[2].source # <<>>
  /\ Val(filteredLogs)[2].gas = RawStep(1).gas

\* Without a source table two steps went through the stage as they were.
C20_WitnessNoTable ==
  /\ IsSome(postFilteredLogs) /\ ~hasSourceTable
  /\ Val(filteredLogs) = Val(augmentedLogs) /\ Len(Val(filteredLogs)) = 2

(***************************************************************************)
(* Properties of getSource, under SpecExcerpt.                             *)
(***************************************************************************)
\* The highlight markers, and a text without them.
Markers == {"\\e[94m", "\\e[39m"}
StripMarkers(text) == SelectSeq(text, LAMBDA c : c \notin Markers)

\* Lines joined with line breaks.
RECURSIVE JoinLines(_)
JoinLines(ls) ==
  IF ls = <<>> THEN <<>>
  ELSE IF Len(ls) = 1 THEN ls[1]
  ELSE ls[1] \o <<"\n">> \o JoinLines(Tail(ls))

exStart == excerpt.offset.location.start
exEnd == excerpt.offset.location.end

\* getSource has returned for a range over several lines of the file.
multiLineExcerpt ==
  /\ excerpt.phase = "returned"
  /\ exStart.line < exEnd.line /\ exEnd.line <= Len(excerpt.sourceFile)

\* getSource has returned for a range within one line of the file.
singleLineExcerpt ==
  /\ excerpt.phase = "returned"
  /\ exStart.line = exEnd.line /\ exEnd.line <= Len(excerpt.sourceFile)

\* C15: for a range over the lines L1 < L2 of a file, the excerpt without its
\* highlight markers is the lines L1..L2 joined with line breaks.
C15_MultiLineRoundTrip ==
  multiLineExcerpt =>
    StripMarkers(excerpt.out.source) =
      JoinLines(SubSeq(excerpt.sourceFile, exStart.line, exEnd.line))

\* C16 as stated: for a range within one line and any two columns, the
\* excerpt without its highlight markers is the line.
C16_SingleLineRoundTripAnyColumns ==
  singleLineExcerpt =>
    StripMarkers(excerpt.out.source) = excerpt.sourceFile[exStart.line]

\* C16 as amended: for a range within one line whose start column is not
\* after its end column, columns running from 0 to past the end of the line,
\* the excerpt is the text before the start column, the highlighted text from
\* the start column up to the end column, and the text from the end column
\* on; without the markers it is the line; and an empty span highlights
\* nothing.
C16_SingleLineRoundTrip ==
  (singleLineExcerpt /\ exStart.column <= exEnd.column) =>
    LET line == excerpt.sourceFile[exStart.line]
        a == Min(exStart.column, Len(line))
        b == Min(exEnd.column, Len(line))
        prefix == SubSeq(line, 1, a)
        middle == SubSeq(line, a + 1, b)
        suffix == SubSeq(line, b + 1, Len(line))
        highlighted == IF middle = <<>> THEN <<>>
                       ELSE <<"\\e[94m">> \o middle \o <<"\\e[39m">>
    IN  /\ excerpt.out.source = prefix \o highlighted \o suffix
        /\ StripMarkers(excerpt.out.source) = line
        /\ exStart.column = exEnd.column => excerpt.out.source = line

\* The middle character of a line of three is highlighted.
C16_Witness ==
  /\ singleLineExcerpt
  /\ exStart.column = 1 /\ exEnd.column = 2
  /\ Len(excerpt.sourceFile[exStart.line]) = 3
  /\ Len(excerpt.out.source) = 5
  /\ excerpt.out.source[2] \in Markers /\ excerpt.out.source[4] \in Markers

\* The decimal numerals of 0..15.
Numerals ==
  <<<<"0">>, <<"1">>, <<"2">>, <<"3">>, <<"4">>, <<"5">>, <<"6">>, <<"7">>,
    <<"8">>, <<"9">>, <<"1", "0">>, <<"1", "1">>, <<"1", "2">>, <<"1", "3">>,
    <<"1", "4">>, <<"1", "5">>>>
Numeral(n) == Numerals[n + 1]

\* C17: the label is <file>:<line>[<startCol>-<endCol>] for a range within one
\* line and <file>:<startLine>[<startCol>]-<endLine>[<endCol>] for any other,
\* whatever the file the range is applied to, its lines few or many; the two
\* ranges of the example get A:10[4-9] and A:12[2]-14[5].
C17_LabelFormat ==
  excerpt.phase = "returned" =>
    LET label == excerpt.out.sourceLine
    IN  /\ label =
             IF exStart.line = exEnd.line
               THEN <<excerpt.offset.fileName, ":">> \o Numeral(exStart.line)
                      \o <<"[">> \o Numeral(exStart.column) \o <<"-">>
                      \o Numeral(exEnd.column) \o <<"]">>
               ELSE <<excerpt.offset.fileName, ":">> \o Numeral(exStart.line)
                      \o <<"[">> \o Numeral(exStart.column) \o <<"]", "-">>
                      \o Numeral(exEnd.line) \o <<"[">> \o Numeral(exEnd.column)
                      \o <<"]">>
        /\ excerpt.offset = RangeInLineTen =>
             label = <<"A", ":", "1", "0", "[", "4", "-", "9", "]">>
        /\ excerpt.offset = RangeFromLineTwelve =>
             label = <<"A", ":", "1", "2", "[", "2", "]", "-", "1", "4", "[",
                       "5", "]">>

\* The range of the example that starts at line 12 was applied to a file of
\* one line: the excerpt is empty and the label names the range.
C17_Witness ==
  /\ excerpt.phase = "returned"
  /\ excerpt.offset = RangeFromLineTwelve
  /\ Len(excerpt.sourceFile) = 1
  /\ excerpt.out.source = <<>>
  /\ Len(excerpt.out.sourceLine) = 13

(***************************************************************************)
(* Properties of calls side by side, under SpecConc.                       *)
(***************************************************************************)
\* What call c has when it runs alone and is answered as it was: the source
\* table and the line index from the artifact it was answered with, and the
\* values lines 134-161 give on the trace it was answered with.
tableAlone(c) ==
  IF IsSome(calls[c].got.S) THEN Some(parseSourceMap(Val(calls[c].got.S))) ELSE None

indexAlone(c) ==
  IF IsSome(calls[c].got.cd) THEN Some(invertedOf(Val(calls[c].got.cd))) ELSE None

pipelineAlone(c) ==
  pipeline(Val(calls[c].got.rep).result, Val(calls[c].traceOpts), tableAlone(c),
           indexAlone(c), FALSE, Val(calls[c].got.throwAt))

\* C13, every call on its own answers: whatever the other call has done in
\* between, call c reads the address of its own receipt, the source table and
\* the line index made from the artifact it was answered with, the trace it
\* was answered with (once it has resumed from the fetch) and the step
\* sequences that trace gives with them; its observer and its handlers were
\* given that trace and those steps, and it returns its own post-filter
\* sequence.
C13_OwnAnswers ==
  \A c \in CallIds :
    LET me == calls[c]
        mine == localsOf(calls, c)
    IN  me.stage # "idle" =>
          /\ traceCollector # "null" =>
               /\ mine.address = targetAddress(Val(me.receipt))
               /\ mine.isContractCreation = Some(creationFlag(Val(me.receipt)))
               /\ me.metaCalls # <<>> =>
                    me.metaCalls[1].address = targetAddress(Val(me.receipt))
          /\ mine.pcToSourceRange = tableAlone(c)
          /\ mine.inverted = indexAlone(c)
          /\ (IsSome(me.got.rep) /\ ~rpcRejects(Val(me.got.rep))) =>
               /\ mine.trace = IF me.stage \in {"rpcSettled", "fetched"}
                                 THEN None ELSE Val(me.got.rep).result
               /\ me.onTraceCalls # <<>> =>
                    me.onTraceCalls = <<Val(me.got.rep).result>>
          /\ IF IsSome(me.got.throwAt)
               THEN LET alone == pipelineAlone(c)
                    IN  /\ mine.augmentedLogs = alone.augmentedLogs
                        /\ mine.info = alone.info
                        /\ mine.filteredLogs = alone.filteredLogs
                        /\ mine.postFilteredLogs = alone.postFilteredLogs
                        /\ me.execLogCalls = alone.execLogCalls
                        /\ me.execCalls # <<>> =>
                             me.execCalls = <<[logs |-> Val(alone.postFilteredLogs),
                                               info |-> Val(alone.info)]>>
                        /\ IsSome(me.result) => me.result = alone.postFilteredLogs
                        /\ me.stage = "failed" =>
                             \/ me.error = alone.error
                             \/ Val(me.error).name = "CallbackError"
               ELSE /\ mine.augmentedLogs = None /\ mine.postFilteredLogs = None
                    /\ me.execLogCalls = <<>> /\ me.execCalls = <<>>
                    /\ me.result = None

\* C13, beside another call as alone: at every point of every interleaving
\* the observed call is where the same call run alone is, with the same
\* locals (source table, line index, trace, step sequences), the same
\* promises, the same arguments handed to the trace collector, the observer
\* and the handlers, and the same outcome.
C13_AsRunAlone ==
  LET me == calls[Observed]
      mine == localsOf(calls, Observed)
  IN  /\ me.stage = stage
      /\ me.receipt = receipt /\ me.traceOpts = traceOpts
      /\ mine.address = address
      /\ mine.isContractCreation = isContractCreation
      /\ mine.bytecode = bytecode
      /\ mine.pcToSourceRange = pcToSourceRange
      /\ mine.inverted = inverted
      /\ me.got.rep = reply
      /\ mine.trace = trace
      /\ mine.augmentedLogs = augmentedLogs
      /\ mine.info = info
      /\ mine.filteredLogs = filteredLogs
      /\ mine.postFilteredLogs = postFilteredLogs
      /\ me.observer = observer
      /\ me.handlers = handlers /\ me.all = all /\ me.batch = batch
      /\ me.metaCalls = metaCalls
      /\ me.onTraceCalls = onTraceCalls
      /\ me.execLogCalls = execLogCalls
      /\ me.execCalls = execCalls
      /\ me.error = error
      /\ me.result = result

C13_SameAsAlone == C13_OwnAnswers /\ C13_AsRunAlone

\* C13, the steps: a step of one call leaves the other call's frame as it
\* was, and no step writes the artifact set or the trace collector.
C13_NoWriteAcross ==
  /\ \A c, d \in CallIds : (c # d /\ calls'[c] # calls[c]) => calls'[d] = calls[d]
  /\ traceCollector' = traceCollector
  /\ contractsData' = contractsData

\* C13: calls side by side do not interfere.
C13_NoInterference == []C13_SameAsAlone /\ [][C13_NoWriteAcross]_vars

\* Both calls are in flight, each past its source resolution with a table
\* of its own, the first awaiting its execLog invocations for two annotated
\* steps (as it does run alone), the second awaiting exec for one.
C13_Witness ==
  /\ calls[1].stage = "awaitAll" /\ calls[2].stage = "exec"
  /\ stage = "awaitAll" /\ Len(execLogCalls) = 2
  /\ IsSome(calls[1].locals.pcToSourceRange)
  /\ IsSome(calls[2].locals.pcToSourceRange)
  /\ DOMAIN Val(calls[1].locals.pcToSourceRange) = PCs
  /\ DOMAIN Val(calls[2].locals.pcToSourceRange) = {0}
  /\ calls[1].receipt # calls[2].receipt
  /\ Len(calls[1].execLogCalls) = 2
  /\ "sourceLine" \in DOMAIN calls[1].execLogCalls[2].log
  /\ Len(calls[2].execCalls[1].logs) = 1

\* C13, second case: the provider has called back for both calls, each with
\* a trace of its own, and neither call has resumed; each has its own table.
C13_WitnessHeld ==
  /\ \A c \in CallIds : calls[c].stage = "rpcSettled"
  /\ calls[1].got.rep # calls[2].got.rep
  /\ \A c \in CallIds : IsSome(calls[c].got.rep) /\ IsSome(Val(calls[c].got.rep).result)
  /\ calls[1].locals.pcToSourceRange # calls[2].locals.pcToSourceRange
  /\ \A c \in CallIds : IsSome(calls[c].locals.pcToSourceRange)
  /\ stage = "rpcSettled"

====
